---- MODULE Spec2Model ----
(***************************************************************************)
(* Model of robot_kiosk.py: the RobotKiosk widget (motor store, gauges,    *)
(* sliders, presets, page stack), the modal DialDialog, and the four       *)
(* QTimer-driven telemetry producers.  One action per Qt callback; every   *)
(* callback runs to completion on the single event loop.                   *)
(***************************************************************************)
EXTENDS Integers, FiniteSets, Sequences, TLC

VARIABLES
    motors,            \* self.motors: channel -> int                (l.130)
    circ,              \* CircularProgress.value of circ_arm/wrist/tent
    slider,            \* QSlider value of s_arm/s_wrist/s_tent
    stack,             \* self.stack.currentIndex()
    dlg,               \* the DialDialog of the latest _open_dial, kept
                       \* until the next operator callback of the main window
    snap,              \* history of that session: the store and views as
                       \* _open_dial found them, whether the dial was turned
    batt_val, batt_label, batt_large_label,
    voltage,           \* the voltage (mV) of the latest battery sample; before
                       \* the first tick, the 12.6 V of the initial labels
    recharged,         \* whether the latest battery tick took its recharge branch
    sensor_labels,     \* imu/prox/gas/temp labels and the sensor log
    uptime_seconds, uptime_label,
    conn_state, conn_label, wifi_entry,
    closed             \* the kiosk window was closed (event loop has quit)

motorVars == <<motors, circ, slider>>
teleVars  == <<batt_val, batt_label, batt_large_label, voltage, recharged,
               sensor_labels,
               uptime_seconds, uptime_label, conn_state, conn_label, wifi_entry>>
vars == <<motors, circ, slider, stack, dlg, snap, batt_val, batt_label,
          batt_large_label, voltage, recharged, sensor_labels,
          uptime_seconds, uptime_label,
          conn_state, conn_label, wifi_entry, closed>>

----------------------------------------------------------------------------
(* Bounds of the model *)

\* uptime ticks explored
MaxUptime == 1
\* battery percent points the battery may lose in Spec
MaxDrain == 1

\* positions the operator drags a slider to (within the slider's range)
SliderValues == {0}
\* positions the operator turns the dial to (within the dial's range)
DialValues == {0, 77}
\* arguments of a direct call of _set_motor
ApiValues == {-5, 0, 77, 100, 999}
\* signal strengths drawn by random.randint(-70, -40)
RssiValues == {-70, -40}
\* recharge jumps drawn by random.randint(8, 25)
JumpValues == 8..25

----------------------------------------------------------------------------
(* Program constants *)

Channels == {"ARM", "WRIST", "TENTACLE"}
\* a key that is not in self.motors
UnknownKey == "HEAD"
ApiKeys == Channels \cup {UnknownKey}

PageNames == <<"Home", "Motor", "Sensors", "Settings">>
Pages == {0, 1, 2, 3}
MotorPage == 1
SettingsPage == 3

Presets == {"Stand", "Wave", "Relax"}

Max(a, b) == IF a >= b THEN a ELSE b
Min(a, b) == IF a <= b THEN a ELSE b

----------------------------------------------------------------------------
(* Widgets *)

\* mutant: the gauge stores the raw value, without the clamp
CircSetValueRaw(v) == v

\* CircularProgress.setValue: self.value = max(0, min(100, int(v)))
CircSetValue(v) == Max(0, Min(100, v))

\* QSlider.setValue on a slider with setRange(0, 100): the value is bounded
\* to the range
SliderSetValue(v) == Max(0, Min(100, v))

\* QDial.setValue on the dial with setRange(0, 100)
DialSetValue(v) == Max(0, Min(100, v))

\* mutant: the dial starts at its default position, whatever the store holds
DialDialogInitDefault(motor_name, initial) ==
    [open |-> TRUE, motor |-> motor_name, dial |-> DialSetValue(50),
     value_label |-> 50, result |-> "Running"]

\* DialDialog.__init__: the dial takes the (range-bounded) initial value, the
\* readout label is formatted from the raw initial value
DialDialogInit(motor_name, initial) ==
    [open |-> TRUE, motor |-> motor_name, dial |-> DialSetValue(initial),
     value_label |-> initial, result |-> "Running"]

\* DialDialog.get_value
get_value(d) == d.dial

NoDialog == [open |-> FALSE, result |-> "None"]
ClosedDialog(res) == [open |-> FALSE, result |-> res]

\* history of a session: what _open_dial found, and whether the dial moved
SessionStart(ms) == [motors |-> ms.motors, circ |-> ms.circ,
                     slider |-> ms.slider, edited |-> FALSE]
SessionEnd(h) == [edited |-> h.edited]
NoSession == [edited |-> FALSE]

----------------------------------------------------------------------------
(* Motor store and its fan-out *)

InitMotors == [c \in Channels |-> 50]

\* mutant: only the ARM gauge follows the store
RefreshCircArmOnly(m) ==
    [c \in Channels |-> IF c = "ARM" THEN CircSetValue(m[c]) ELSE 50]

\* the views as _set_motor refreshes them from the store (l.482-488)
RefreshCirc(m) == [c \in Channels |-> CircSetValue(m[c])]
RefreshSliders(m) == [c \in Channels |-> SliderSetValue(m[c])]

\* mutant: the store write adds the value to the stored one
StoreWriteAdds(m, key, val) ==
    IF key \in DOMAIN m THEN [m EXCEPT ![key] = @ + val] ELSE m

\* the store write of _set_motor (l.479-480)
StoreWrite(m, key, val) ==
    IF key \in DOMAIN m THEN [m EXCEPT ![key] = val] ELSE m

\* the views of the motor page: a gauge and a slider per channel
Gauge(c) == <<"circ", c>>
Slider(c) == <<"slider", c>>
Gauges == { Gauge(c) : c \in Channels }

\* mutant: the sliders' signals stay live during the fan-out
SignalsLive == FALSE

\* s.blockSignals(True) ... s.blockSignals(False) around each slider's
\* setValue in _set_motor
SignalsBlocked == TRUE

\* A motor state ms carries the store and the views, and the record of the
\* run that produced it: writes, the channels whose store entry was assigned,
\* in order, and rendered, the views whose setValue was called.

\* mutant: _set_motor refreshes the gauges but not the sliders
set_motor_no_slider_sync(ms, key, val) ==
    LET m1 == StoreWrite(ms.motors, key, val)
    IN  [ms EXCEPT !.motors = m1, !.circ = RefreshCirc(m1),
                   !.writes = IF key \in DOMAIN ms.motors
                              THEN Append(@, key) ELSE @,
                   !.rendered = @ \cup Gauges]

\* mutant: the value is written to every channel of the store
set_motor_all_channels(ms, key, val) ==
    LET m1 == [d \in DOMAIN ms.motors |-> val]
    IN  [ms EXCEPT !.motors = m1, !.circ = RefreshCirc(m1),
                   !.slider = RefreshSliders(m1),
                   !.writes = @ \o <<"ARM", "WRIST", "TENTACLE">>,
                   !.rendered = @ \cup Gauges \cup {Slider(d) : d \in Channels}]

RECURSIVE set_motor(_, _, _)

\* s.setValue(self.motors[c]) on the slider of c: the slider takes the
\* range-bounded value, and emits valueChanged, which is connected to
\* _set_motor(c, v), when its value changes and its signals are not blocked
sync_slider(ms, c) ==
    LET v == SliderSetValue(ms.motors[c])
        ms1 == [ms EXCEPT !.slider[c] = v, !.rendered = @ \cup {Slider(c)}]
    IN  IF v # ms.slider[c] /\ ~SignalsBlocked THEN set_motor(ms1, c, v)
        ELSE ms1

\* RobotKiosk._set_motor as a function of the motor state
set_motor(ms, key, val) ==
    LET m1 == StoreWrite(ms.motors, key, val)
        ms1 == [ms EXCEPT !.motors = m1, !.circ = RefreshCirc(m1),
                          !.writes = IF key \in DOMAIN ms.motors
                                     THEN Append(@, key) ELSE @,
                          !.rendered = @ \cup Gauges]
    IN  sync_slider(sync_slider(sync_slider(ms1, "ARM"), "WRIST"), "TENTACLE")

\* the motor state at the start of a callback
MotorState == [motors |-> motors, circ |-> circ, slider |-> slider,
               writes |-> <<>>, rendered |-> {}]

Install(ms) ==
    /\ motors' = ms.motors
    /\ circ' = ms.circ
    /\ slider' = ms.slider

\* the table of _apply_preset
PresetVals(name) ==
    IF name = "Stand" THEN [ARM |-> 30, WRIST |-> 40, TENTACLE |-> 10]
    ELSE IF name = "Wave" THEN [ARM |-> 80, WRIST |-> 60, TENTACLE |-> 10]
    ELSE [ARM |-> 40, WRIST |-> 30, TENTACLE |-> 20]

\* dict iteration order of vals.items()
PresetOrder == <<"ARM", "WRIST", "TENTACLE">>

RECURSIVE apply_preset_from(_, _, _)
apply_preset_from(ms, vals, i) ==
    IF i > Len(PresetOrder) THEN ms
    ELSE apply_preset_from(set_motor(ms, PresetOrder[i], vals[PresetOrder[i]]),
                           vals, i + 1)

\* mutant: the loop of _apply_preset returns after its first entry
apply_preset_first_only(ms, name) ==
    set_motor(ms, PresetOrder[1], PresetVals(name)[PresetOrder[1]])

\* RobotKiosk._apply_preset as a function of the motor state
apply_preset(ms, name) == apply_preset_from(ms, PresetVals(name), 1)

----------------------------------------------------------------------------
(* Telemetry formatting *)

\* mutant: batt_val / 100 as an integer division
VoltageIntDiv(p) == 11000 + (p \div 100) * 1600

\* voltage = 11.0 + (batt_val / 100.0) * 1.6, in millivolts
Voltage(p) == 11000 + 16 * p

\* f"{voltage:.2f}": millivolts rounded to centivolts (16*p never ends in 5)
Fmt2(mv) == (mv + 5) \div 10

\* the QLabel("Voltage: 12.6 V") of the Home page's battery group, in
\* millivolts: the label is built once and no code sets its text again
HomeVoltageLabel == 12600

\* the label texts, as the values they show
BattLabel(p, cv) == [percent |-> p, centivolts |-> cv]
UptimeLabel(s) == [h |-> s \div 3600, m |-> (s % 3600) \div 60, sec |-> s % 60]

InitSensorLabels ==
    [imu |-> <<0, 0, 0>>, prox |-> <<120, 200, 200>>,
     gas |-> [quality |-> "OK", mq |-> 120],
     temp |-> <<260, 44>>, log |-> [event |-> FALSE, mq |-> 0]]

\* the random draws of one _simulate_sensors call (tenths for the floats);
\* ev is random.random() < 0.07
SensorDraws ==
    { [p |-> -100, r |-> -60, y |-> -1800, f |-> 20, l |-> 20, rr |-> 20,
       mq |-> 149, temp |-> 200, hum |-> 30, ev |-> FALSE],
      [p |-> 100, r |-> 60, y |-> 1800, f |-> 200, l |-> 300, rr |-> 300,
       mq |-> 150, temp |-> 360, hum |-> 70, ev |-> TRUE] }

----------------------------------------------------------------------------
(* Initial state: RobotKiosk.__init__ *)

Init ==
    /\ motors = InitMotors
    /\ circ = RefreshCirc(InitMotors)
    /\ slider = RefreshSliders(InitMotors)
    /\ stack = 0
    /\ dlg = NoDialog
    /\ snap = NoSession
    /\ batt_val = 100
    /\ batt_label = BattLabel(100, 1260)
    /\ batt_large_label = 100
    /\ voltage = 12600
    /\ recharged = FALSE
    /\ sensor_labels = InitSensorLabels
    /\ uptime_seconds = 0
    /\ uptime_label = UptimeLabel(0)
    /\ conn_state = FALSE
    /\ conn_label = [text |-> "--"]
    /\ wifi_entry = [text |-> "Not connected"]
    /\ closed = FALSE

\* mutant: the dialog is not modal, the main window keeps taking input
MainInputNonModal == ~closed

\* the main window takes operator input: it is not closed and no modal
\* dialog (setModal(True), exec_()) is running
MainInput == ~closed /\ ~dlg.open

\* mutant: the timers are held back while a dialog is open
TimersBlockedByDialog == ~closed /\ ~dlg.open

\* mutant: the timers outlive the window
TimersOutliveWindow == TRUE

\* the timers started by _setup_timers fire while an event loop runs: the
\* main loop or the nested loop of dlg.exec_()
TimersRun == ~closed

----------------------------------------------------------------------------
(* Operator input on the main window *)

\* the runs of _set_motor an operator input starts from the current state:
\* the slider of c, moved to v, emits valueChanged(v)
SliderRun(c, v) == set_motor([MotorState EXCEPT !.slider[c] = v], c, v)
\* exec_() returned Accepted: _set_motor(motor_name, dlg.get_value())
AcceptRun == set_motor(MotorState, dlg.motor, get_value(dlg))
\* a preset button was clicked
PresetRun(name) == apply_preset(MotorState, name)

\* s_arm/s_wrist/s_tent.valueChanged -> _set_motor(c, v)
SliderMoved(c, v) ==
    /\ MainInput
    /\ stack = MotorPage
    /\ v # slider[c]
    /\ UNCHANGED teleVars
    /\ UNCHANGED <<stack, closed>>
    /\ dlg' = NoDialog
    /\ snap' = NoSession
    /\ Install(SliderRun(c, v))

\* a preset button -> _apply_preset(name)
ApplyPreset(name) ==
    /\ MainInput
    /\ stack = MotorPage
    /\ UNCHANGED teleVars
    /\ UNCHANGED <<stack, closed>>
    /\ dlg' = NoDialog
    /\ snap' = NoSession
    /\ Install(PresetRun(name))

\* mutant: every navigation button carries the index of the last page
OnNavLastPage(idx) ==
    /\ MainInput
    /\ stack' = 3
    /\ dlg' = NoDialog
    /\ snap' = NoSession
    /\ UNCHANGED closed
    /\ UNCHANGED motorVars
    /\ UNCHANGED teleVars

\* a navigation button -> _on_nav
OnNav(idx) ==
    /\ MainInput
    /\ stack' = idx
    /\ dlg' = NoDialog
    /\ snap' = NoSession
    /\ UNCHANGED closed
    /\ UNCHANGED motorVars
    /\ UNCHANGED teleVars

----------------------------------------------------------------------------
(* The dial dialog: _open_dial up to dlg.exec_(), the nested event loop,    *)
(* and the rest of _open_dial when exec_ returns                            *)

\* _open_dial(motor_name) until exec_() starts the modal loop
open_dial(motor_name) ==
    /\ dlg' = DialDialogInit(motor_name,
                  IF motor_name \in DOMAIN motors THEN motors[motor_name] ELSE 50)
    /\ snap' = SessionStart(MotorState)
    /\ UNCHANGED <<stack, closed>>
    /\ UNCHANGED motorVars
    /\ UNCHANGED teleVars

\* btn_arm/btn_wrist/btn_tent.clicked
OpenDial(c) ==
    /\ MainInput
    /\ stack = MotorPage
    /\ open_dial(c)

\* mutant: turning the dial writes through to the store at once
DialTurnLive(v) ==
    /\ ~closed
    /\ dlg.open
    /\ v # dlg.dial
    /\ dlg' = [dlg EXCEPT !.dial = v, !.value_label = v]
    /\ snap' = [snap EXCEPT !.edited = TRUE]
    /\ UNCHANGED <<stack, closed>>
    /\ UNCHANGED teleVars
    /\ Install(set_motor(MotorState, dlg.motor, v))

\* dial.valueChanged -> DialDialog._on_change
DialTurn(v) ==
    /\ ~closed
    /\ dlg.open
    /\ v # dlg.dial
    /\ dlg' = [dlg EXCEPT !.dial = v, !.value_label = v]
    /\ snap' = [snap EXCEPT !.edited = TRUE]
    /\ UNCHANGED <<stack, closed>>
    /\ UNCHANGED motorVars
    /\ UNCHANGED teleVars

\* "Done" -> accept: exec_() returns Accepted, _open_dial applies the value
DialogAccept ==
    /\ ~closed
    /\ dlg.open
    /\ UNCHANGED teleVars
    /\ UNCHANGED <<stack, closed>>
    /\ dlg' = ClosedDialog("Accepted")
    /\ snap' = SessionEnd(snap)
    /\ Install(AcceptRun)

\* mutant: _open_dial applies the dial value whatever exec_() returned
DialogRejectApplies ==
    /\ ~closed
    /\ dlg.open
    /\ UNCHANGED teleVars
    /\ UNCHANGED <<stack, closed>>
    /\ dlg' = ClosedDialog("Rejected")
    /\ snap' = SessionEnd(snap)
    /\ Install(set_motor(MotorState, dlg.motor, get_value(dlg)))

\* Escape in the dialog -> reject: exec_() returns Rejected
DialogReject ==
    /\ ~closed
    /\ dlg.open
    /\ dlg' = ClosedDialog("Rejected")
    /\ snap' = SessionEnd(snap)
    /\ UNCHANGED <<stack, closed>>
    /\ UNCHANGED motorVars
    /\ UNCHANGED teleVars

----------------------------------------------------------------------------
(* Timers *)

\* mutant: the final clamp to [0, 100] is missing
simulate_battery_no_clamp(b, dec, charge, jump) ==
    LET b1 == b - dec
    IN  IF b1 < 20 /\ charge THEN Min(100, b1 + jump) ELSE b1

\* mutant: random.choice([0, 1, 2]) as the decrement
simulate_battery_big_step(b, dec, charge, jump) ==
    LET b1 == b - 2 * dec
        b2 == IF b1 < 20 /\ charge THEN Min(100, b1 + jump) ELSE b1
    IN  Max(0, Min(100, b2))

\* _simulate_battery on the percent; dec is random.choice([0, 0, 1]), charge
\* is random.random() < 0.28, jump is random.randint(8, 25)
simulate_battery(b, dec, charge, jump) ==
    LET b1 == b - dec
        b2 == IF b1 < 20 /\ charge THEN Min(100, b1 + jump) ELSE b1
    IN  Max(0, Min(100, b2))

\* the draws one _simulate_battery call makes: random.random() is called
\* only below 20 percent, random.randint only when charging
BatteryDraws(b) ==
    { d \in [dec : {0, 1}, charge : BOOLEAN, jump : JumpValues] :
        /\ (b - d.dec >= 20 => ~d.charge)
        /\ (~d.charge => d.jump = 8) }

\* the body of _simulate_battery
battery_update ==
    /\ \E d \in BatteryDraws(batt_val) :
          /\ batt_val' = simulate_battery(batt_val, d.dec, d.charge, d.jump)
          /\ recharged' = (batt_val - d.dec < 20 /\ d.charge)
          /\ voltage' = Voltage(batt_val')
          /\ batt_label' = BattLabel(batt_val', Fmt2(voltage'))
          /\ batt_large_label' = batt_val'
    /\ UNCHANGED <<stack, dlg, snap, closed, sensor_labels, uptime_seconds,
                   uptime_label, conn_state, conn_label, wifi_entry>>
    /\ UNCHANGED motorVars

\* batt_timer -> _simulate_battery, within the drain explored in Spec
SimulateBattery ==
    /\ TimersRun
    /\ batt_val > 100 - MaxDrain
    /\ battery_update

\* batt_timer -> _simulate_battery, over the whole range of the percent
BatteryTick ==
    /\ TimersRun
    /\ battery_update

\* sensor_timer -> _simulate_sensors
SimulateSensors ==
    /\ TimersRun
    /\ \E d \in SensorDraws :
          sensor_labels' =
              [imu |-> <<d.p, d.r, d.y>>, prox |-> <<d.f, d.l, d.rr>>,
               gas |-> [quality |-> IF d.mq < 150 THEN "OK" ELSE "ALERT",
                        mq |-> d.mq],
               temp |-> <<d.temp, d.hum>>,
               log |-> IF d.ev THEN [event |-> TRUE, mq |-> d.mq]
                       ELSE [event |-> FALSE, mq |-> 0]]
    /\ UNCHANGED <<stack, dlg, snap, closed, batt_val, batt_label,
                   batt_large_label, voltage, recharged, uptime_seconds,
                   uptime_label,
                   conn_state, conn_label, wifi_entry>>
    /\ UNCHANGED motorVars

\* mutant: a wrapping counter that restarts at 0
UpdateUptimeWraps ==
    /\ TimersRun
    /\ uptime_seconds' = IF uptime_seconds < MaxUptime
                         THEN uptime_seconds + 1 ELSE 0
    /\ uptime_label' = UptimeLabel(uptime_seconds')
    /\ UNCHANGED <<stack, dlg, snap, closed, batt_val, batt_label,
                   batt_large_label, voltage, recharged, sensor_labels,
                   conn_state, conn_label, wifi_entry>>
    /\ UNCHANGED motorVars

\* uptime_timer -> _update_uptime
UpdateUptime ==
    /\ TimersRun
    /\ uptime_seconds < MaxUptime
    /\ uptime_seconds' = uptime_seconds + 1
    /\ uptime_label' = UptimeLabel(uptime_seconds')
    /\ UNCHANGED <<stack, dlg, snap, closed, batt_val, batt_label,
                   batt_large_label, voltage, recharged, sensor_labels,
                   conn_state,
                   conn_label, wifi_entry>>
    /\ UNCHANGED motorVars

\* mutant: losing the connection also drives every motor to 0
ToggleConnFailsafe ==
    /\ TimersRun
    /\ conn_state' = ~conn_state
    /\ IF conn_state'
       THEN /\ \E ss \in RssiValues :
                  /\ conn_label' = [text |-> "connected", rssi |-> ss]
                  /\ wifi_entry' = [text |-> "Connected", rssi |-> ss]
            /\ UNCHANGED motorVars
       ELSE /\ conn_label' = [text |-> "disconnected"]
            /\ wifi_entry' = [text |-> "Not connected"]
            /\ Install(set_motor(set_motor(set_motor(MotorState, "ARM", 0),
                                            "WRIST", 0), "TENTACLE", 0))
    /\ UNCHANGED <<stack, dlg, snap, closed, batt_val, batt_label,
                   batt_large_label, voltage, recharged, sensor_labels,
                   uptime_seconds,
                   uptime_label>>

\* mutant: the Settings entry draws a signal strength of its own
ToggleConnTwoDraws ==
    /\ TimersRun
    /\ conn_state' = ~conn_state
    /\ IF conn_state'
       THEN \E ss \in RssiValues, st \in RssiValues :
               /\ conn_label' = [text |-> "connected", rssi |-> ss]
               /\ wifi_entry' = [text |-> "Connected", rssi |-> st]
       ELSE /\ conn_label' = [text |-> "disconnected"]
            /\ wifi_entry' = [text |-> "Not connected"]
    /\ UNCHANGED <<stack, dlg, snap, closed, batt_val, batt_label,
                   batt_large_label, voltage, recharged, sensor_labels,
                   uptime_seconds, uptime_label>>
    /\ UNCHANGED motorVars

\* conn_timer -> _toggle_conn
ToggleConn ==
    /\ TimersRun
    /\ conn_state' = ~conn_state
    /\ IF conn_state'
       THEN \E ss \in RssiValues :
               /\ conn_label' = [text |-> "connected", rssi |-> ss]
               /\ wifi_entry' = [text |-> "Connected", rssi |-> ss]
       ELSE /\ conn_label' = [text |-> "disconnected"]
            /\ wifi_entry' = [text |-> "Not connected"]
    /\ UNCHANGED <<stack, dlg, snap, closed, batt_val, batt_label,
                   batt_large_label, voltage, recharged, sensor_labels,
                   uptime_seconds,
                   uptime_label>>
    /\ UNCHANGED motorVars

----------------------------------------------------------------------------
(* Leaving the kiosk *)

\* self.close() on the only window: the application quits and
\* sys.exit(app.exec_()) ends the process
CloseKiosk ==
    /\ closed' = TRUE
    /\ UNCHANGED <<stack, dlg, snap>>
    /\ UNCHANGED motorVars
    /\ UNCHANGED teleVars

\* "Shutdown Robot" on the Settings page -> _shutdown_robot
ShutdownRobot ==
    /\ MainInput
    /\ stack = SettingsPage
    /\ CloseKiosk

\* keyPressEvent of the main window with Escape
KeyEscape ==
    /\ MainInput
    /\ CloseKiosk

----------------------------------------------------------------------------
(* The program *)

Next ==
    \/ \E c \in Channels, v \in SliderValues : SliderMoved(c, v)
    \/ \E name \in Presets : ApplyPreset(name)
    \/ \E idx \in Pages : OnNav(idx)
    \/ \E c \in Channels : OpenDial(c)
    \/ \E v \in DialValues : DialTurn(v)
    \/ DialogAccept
    \/ DialogReject
    \/ SimulateBattery
    \/ SimulateSensors
    \/ UpdateUptime
    \/ ToggleConn
    \/ ShutdownRobot
    \/ KeyEscape

Spec == Init /\ [][Next]_vars

----------------------------------------------------------------------------
(* The store and dialog entry points called directly, with any argument *)

\* _set_motor(key, val) called with an arbitrary key and integer
CallSetMotor(key, v) ==
    /\ MainInput
    /\ UNCHANGED teleVars
    /\ UNCHANGED <<stack, closed>>
    /\ dlg' = NoDialog
    /\ snap' = NoSession
    /\ Install(set_motor(MotorState, key, v))

\* _open_dial(key) called with an arbitrary key
CallOpenDial(key) ==
    /\ MainInput
    /\ open_dial(key)

NextApi ==
    \/ \E key \in ApiKeys, v \in ApiValues : CallSetMotor(key, v)
    \/ \E key \in ApiKeys : CallOpenDial(key)
    \/ \E v \in DialValues : DialTurn(v)
    \/ DialogAccept
    \/ DialogReject

SpecApi == Init /\ [][NextApi]_vars

\* the timers are periodic: a timer that stays due fires
SpecFair == Spec /\ WF_vars(UpdateUptime)

\* the battery producer alone, over the whole range of the percent
NextBattery == BatteryTick

SpecBattery == Init /\ [][NextBattery]_vars

----------------------------------------------------------------------------
(* Properties *)

\* clamp(v, lo, hi) as the claims use it
Clamp(v, lo, hi) == IF v < lo THEN lo ELSE IF v > hi THEN hi ELSE v

\* C1: after _set_motor(c, v) returns, for any integer v (below 0 and above
\* 100 included), the gauge and the slider of channel c show clamp(v, 0, 100).
C1_ViewsShowClamped ==
    [][\A c \in Channels, v \in ApiValues :
          CallSetMotor(c, v) =>
              /\ circ'[c] = Clamp(v, 0, 100)
              /\ slider'[c] = Clamp(v, 0, 100)]_vars

\* C1 witness: an out-of-range value was applied and both views show its clamp
C1_Witness ==
    \E c \in Channels :
        /\ motors[c] > 100
        /\ circ[c] = 100
        /\ slider[c] = 100

\* C2: the value _set_motor(c, v) writes to the store is clamp(v, 0, 100), so
\* the stored value of a channel is never outside [0, 100].
C2_StoreClamped ==
    [][\A c \in Channels, v \in ApiValues :
          CallSetMotor(c, v) =>
              /\ motors'[c] = Clamp(v, 0, 100)
              /\ motors'[c] \in 0..100]_vars

\* C3: a dialog session that is opened, adjusted and closed without accepting
\* leaves the store, every gauge and every slider as they were when it opened.
C3_CancelRestores ==
    [][(dlg.open /\ DialogReject) =>
          /\ motors' = snap.motors
          /\ circ' = snap.circ
          /\ slider' = snap.slider]_vars

\* C3 witness: a session in which the dial was turned has been cancelled
C3_Witness ==
    /\ ~dlg.open
    /\ dlg.result = "Rejected"
    /\ snap.edited
    /\ motors # InitMotors

\* C4: accepting the dialog of channel c with the dial at p leaves the store
\* holding p for c and the gauge and slider of c showing p.
C4_CommitApplies ==
    [][(dlg.open /\ dlg.motor \in Channels /\ DialogAccept) =>
          /\ motors'[dlg.motor] = dlg.dial
          /\ circ'[dlg.motor] = dlg.dial
          /\ slider'[dlg.motor] = dlg.dial
          /\ dlg.dial \in 0..100]_vars

\* C4 witness: a session opened on a store value of 50 was turned to 77 and
\* accepted
C4_Witness ==
    /\ dlg.result = "Accepted"
    /\ snap.edited
    /\ motors["WRIST"] = 77
    /\ circ["WRIST"] = 77
    /\ slider["WRIST"] = 77

\* C5: while a dial dialog is open, the store, the gauges and the sliders hold
\* the values they had when the dialog was opened; turning the dial changes
\* only the dialog.
C5_OpenDialogIsolated ==
    dlg.open =>
        /\ motors = snap.motors
        /\ circ = snap.circ
        /\ slider = snap.slider

\* C5 witness: an open dialog whose dial was turned away from the stored value
C5_Witness ==
    /\ dlg.open
    /\ snap.edited
    /\ dlg.dial # motors[dlg.motor]
    /\ dlg.value_label = dlg.dial

\* the ticks a timer can still deliver within the bounds of the model
TicksEnabled ==
    /\ uptime_seconds < MaxUptime => ENABLED UpdateUptime
    /\ batt_val > 100 - MaxDrain => ENABLED SimulateBattery
    /\ ENABLED SimulateSensors
    /\ ENABLED ToggleConn

\* C6: a modal dialog does not suspend telemetry: while a dial dialog is open
\* the battery, sensor, uptime and connectivity ticks stay enabled, and with
\* the uptime timer firing fairly the uptime counter increases although the
\* dialog is never closed.
C6_TelemetryNotSuspended ==
    /\ [](dlg.open => TicksEnabled)
    /\ \A k \in 0..(MaxUptime - 1) :
          (dlg.open /\ uptime_seconds = k) ~> (uptime_seconds > k \/ ~dlg.open)

\* C6 witness: uptime and the other producers advanced under an open dialog
\* that was opened before the first tick
C6_Witness ==
    /\ dlg.open
    /\ snap.motors = InitMotors
    /\ uptime_seconds > 0
    /\ conn_state
    /\ batt_val < 100
    /\ sensor_labels # InitSensorLabels

\* C7: while a dial dialog is open no page navigation and no request to open
\* another dialog is processed: the active page stays, and the dialog that is
\* open stays the one session until it closes.
C7_ModalBlocksInput ==
    [][dlg.open =>
          /\ stack' = stack
          /\ dlg'.open =>
                /\ dlg'.motor = dlg.motor
                /\ snap'.motors = snap.motors
                /\ snap'.edited \/ ~snap.edited]_vars

\* C7 witness: a dialog is open on the Motor page after the operator had
\* navigated and moved a slider
C7_Witness ==
    /\ dlg.open
    /\ stack = MotorPage
    /\ dlg.motor = "TENTACLE"
    /\ motors["ARM"] = 0

\* C8: the initial page is Home, every page can be requested from every page,
\* and after a navigation exactly the requested page is the active one.
C8_Navigation ==
    /\ stack = 0
    /\ [](stack \in Pages)
    /\ [](MainInput => \A idx \in Pages : ENABLED OnNav(idx))
    /\ [][\A idx \in Pages : OnNav(idx) => stack' = idx]_vars

\* C8 witness: the Settings page is active and goes back to Home on request
C8_Witness ==
    /\ stack = SettingsPage
    /\ PageNames[stack + 1] = "Settings"
    /\ MainInput
    /\ ENABLED OnNav(0)

ApplyStep ==
    \/ \E c \in Channels, v \in SliderValues : SliderMoved(c, v)
    \/ \E name \in Presets : ApplyPreset(name)
    \/ DialogAccept

TickStep == SimulateBattery \/ SimulateSensors \/ UpdateUptime \/ ToggleConn

NavStep == \E idx \in Pages : OnNav(idx)

DialogStep ==
    \/ \E c \in Channels : OpenDial(c)
    \/ \E v \in DialValues : DialTurn(v)
    \/ DialogReject

\* C9: the motor store changes only in a step that runs _set_motor; telemetry
\* ticks, navigation and dialog open, adjust and cancel leave the store
\* unchanged; no apply or navigation step changes a telemetry value.
\* (Stated by contraposition: a step that changes the store is an apply step
\* and none of the others; a step that changes telemetry is no apply or
\* navigation step.)
C9_SingleWriter ==
    [][/\ motors' # motors => (ApplyStep /\ ~(TickStep \/ NavStep \/ DialogStep))
       /\ teleVars' # teleVars => ~(ApplyStep \/ NavStep)]_vars

\* C9 witness: store writes, telemetry ticks and navigation all took place
C9_Witness ==
    /\ motors["ARM"] = 0
    /\ motors["WRIST"] = 30
    /\ uptime_seconds > 0
    /\ ~conn_state
    /\ conn_label.text = "disconnected"
    /\ stack = 2

\* C10: a preset leaves the store, the three gauges and the sliders at the
\* preset's values for every channel (Wave: 80/60/10), and a dial dialog
\* opened then for a channel starts at that channel's preset value.
C10_PresetApplies ==
    [][/\ \A name \in Presets : ApplyPreset(name) =>
             \A c \in Channels :
                 /\ motors'[c] = PresetVals(name)[c]
                 /\ circ'[c] = PresetVals(name)[c]
                 /\ slider'[c] = PresetVals(name)[c]
       /\ ApplyPreset("Wave") =>
             /\ motors' = [ARM |-> 80, WRIST |-> 60, TENTACLE |-> 10]
             /\ circ' = motors'
             /\ slider' = motors'
       /\ \A name \in Presets, c \in Channels :
             (OpenDial(c) /\ \A d \in Channels : motors[d] = PresetVals(name)[d])
                 => /\ dlg'.dial = PresetVals(name)[c]
                    /\ dlg'.value_label = PresetVals(name)[c]]_vars

\* C10 witness: after Wave, the dialog of TENTACLE is open and starts at 10
C10_Witness ==
    /\ motors = [ARM |-> 80, WRIST |-> 60, TENTACLE |-> 10]
    /\ circ = motors
    /\ slider = motors
    /\ dlg.open
    /\ dlg.motor = "TENTACLE"
    /\ dlg.dial = 10
    /\ ~snap.edited

\* C11: every battery sample a tick produces has the voltage
\* 11.0 + (p/100)*1.6 of its percent p (11000 + 16*p mV), p being the percent
\* after the clamp to [0, 100].
C11_VoltageOfPercent ==
    [][BatteryTick =>
          /\ batt_val' \in 0..100
          /\ voltage' = 11000 + 16 * batt_val'
          /\ 100 * (voltage' - 11000) = batt_val' * 1600]_vars

\* C11 witness: a sample below full charge with its voltage (19% is 11.304 V)
C11_Witness ==
    /\ batt_val = 19
    /\ voltage = 11304

\* C12: after any number of battery ticks with any random choices the battery
\* percent is an integer in [0, 100].
C12_PercentInRange == batt_val \in 0..100

\* C12 witness: the battery has drained to the floor, where a further
\* decrement must be clamped
C12_Witness ==
    /\ batt_val = 0
    /\ ENABLED BatteryTick

\* C13: uptime starts at 0, every uptime tick increases it by exactly 1, and
\* no other action (motor input, dialog, navigation, another producer, the
\* exit) changes it: it never decreases along a behaviour.
C13_UptimeMonotonic ==
    /\ uptime_seconds = 0
    /\ [][/\ UpdateUptime => uptime_seconds' = uptime_seconds + 1
          /\ uptime_seconds' # uptime_seconds => UpdateUptime
          /\ uptime_seconds' >= uptime_seconds]_vars

\* C13 witness: the counter has ticked, and motor input, a dialog session,
\* navigation and the connectivity producer have acted as well
C13_Witness ==
    /\ uptime_seconds > 0
    /\ uptime_label = UptimeLabel(uptime_seconds)
    /\ conn_state
    /\ motors["WRIST"] = 77
    /\ dlg.result = "Accepted"
    /\ stack = MotorPage

\* C14: a call of _set_motor or _open_dial with a channel that is not in the
\* motor store is refused (an invalid-argument outcome): no edit session
\* starts for it, and neither the store nor any view changes.
C14_UnknownChannelRefused ==
    [][/\ (\E v \in ApiValues : CallSetMotor(UnknownKey, v))
             => UNCHANGED motorVars
       /\ CallOpenDial(UnknownKey)
             => (~dlg'.open /\ UNCHANGED motorVars)]_vars

\* C15: an exit request (Shutdown on the Settings page, or Escape in the main
\* window) ends the program, and from then on no producer runs: no battery,
\* sensor, uptime or connectivity tick is enabled or occurs, the telemetry
\* keeps its last sample and the program stays ended.
C15_NoTickAfterExit ==
    /\ [](closed => ~ENABLED TickStep)
    /\ [][/\ (ShutdownRobot \/ KeyEscape) => closed'
          /\ closed => (closed' /\ ~TickStep /\ UNCHANGED teleVars)]_vars

\* C15 witness: the program has been left from the Settings page after the
\* producers had run, at a moment when an uptime tick and a battery tick were
\* still to come
C15_Witness ==
    /\ closed
    /\ stack = SettingsPage
    /\ conn_state
    /\ uptime_seconds < MaxUptime
    /\ batt_val > 100 - MaxDrain

\* store and views of a motor state, without the record of its run
StateOf(ms) == <<ms.motors, ms.circ, ms.slider>>

\* every gauge and slider shows the stored value of its channel
ViewsShowStore ==
    \A c \in Channels : circ[c] = motors[c] /\ slider[c] = motors[c]

\* C16: idempotence. In every state, _set_motor(c, stored value of c) leaves
\* store, gauges and sliders as they are, and _set_motor(c, v) run twice gives
\* the state of running it once; a step that applies stored values (an accepted
\* dialog whose dial shows the stored value, a preset whose values are the
\* stored ones) changes no store entry, gauge or slider, and all views still
\* show the store.
C16_Idempotent ==
    /\ [](\A c \in Channels :
            /\ StateOf(set_motor(MotorState, c, motors[c])) = StateOf(MotorState)
            /\ \A v \in DialValues :
                  StateOf(set_motor(set_motor(MotorState, c, v), c, v))
                      = StateOf(set_motor(MotorState, c, v)))
    /\ [][/\ (dlg.open /\ get_value(dlg) = motors[dlg.motor] /\ DialogAccept)
                => (UNCHANGED motorVars /\ ViewsShowStore')
          /\ \A name \in Presets :
                ((\A c \in Channels : motors[c] = PresetVals(name)[c])
                     /\ ApplyPreset(name))
                => (UNCHANGED motorVars /\ ViewsShowStore')]_vars

\* C16 witness: a dialog was accepted with its dial never turned, so that the
\* stored value (set by earlier input) was applied again
C16_Witness ==
    /\ dlg.result = "Accepted"
    /\ ~snap.edited
    /\ motors = [ARM |-> 30, WRIST |-> 40, TENTACLE |-> 0]
    /\ ViewsShowStore

\* C17: in every state between callbacks (initially, after a slider move, a
\* preset, an accepted or cancelled dialog, a telemetry tick, a navigation, and
\* while a dialog is open) the gauge and the slider of each channel show
\* exactly the value stored for the channel.
C17_ViewsEqualStore ==
    \A c \in Channels : <<circ[c], slider[c]>> = <<motors[c], motors[c]>>

\* C17 witness: a dialog is open on a store changed by a slider, a preset and a
\* dialog, with telemetry ticking, and every view shows its channel's value
C17_Witness ==
    /\ dlg.open
    /\ motors = [ARM |-> 0, WRIST |-> 77, TENTACLE |-> 10]
    /\ circ = motors
    /\ slider = motors
    /\ uptime_seconds > 0

\* C18: the fan-out writes every view of the channel except the originating
\* one: a run started by the slider of c calls setValue on the gauge of c but
\* not on the slider of c; a run started by an accepted dialog calls setValue
\* on the gauge and on the slider of its channel.
C18_FanOutSkipsOriginator ==
    [][/\ \A c \in Channels, v \in SliderValues :
             SliderMoved(c, v) =>
                 /\ Gauge(c) \in SliderRun(c, v).rendered
                 /\ Slider(c) \notin SliderRun(c, v).rendered
       /\ (dlg.open /\ DialogAccept) =>
                 /\ Gauge(dlg.motor) \in AcceptRun.rendered
                 /\ Slider(dlg.motor) \in AcceptRun.rendered]_vars

\* C19: no echo. A slider change writes the store once, for its channel; an
\* accepted dialog writes it once, for its channel; a preset writes it once per
\* channel, in the order of the preset; a cancelled dialog does not write it.
\* The setValue calls of the fan-out start no further _set_motor.
C19_NoEcho ==
    [][/\ \A c \in Channels, v \in SliderValues :
             SliderMoved(c, v) => SliderRun(c, v).writes = <<c>>
       /\ (dlg.open /\ DialogAccept) => AcceptRun.writes = <<dlg.motor>>
       /\ \A name \in Presets :
             ApplyPreset(name) => PresetRun(name).writes = PresetOrder
       /\ DialogReject => UNCHANGED motorVars]_vars

\* C19 witness: after a preset, a slider change and an accepted dialog, which
\* moved sliders away from their positions, a turned dial was cancelled
C19_Witness ==
    /\ dlg.result = "Rejected"
    /\ snap.edited
    /\ motors = [ARM |-> 0, WRIST |-> 77, TENTACLE |-> 20]
    /\ slider = motors

\* C20 as claimed: q = p or q = p - 1 (floored at 0), unless p < 20, where q
\* may be p plus a recharge jump of 8 to 25 (capped at 100); never a rise when
\* p >= 20.
C20_StepPolicyOnPrevious ==
    [][BatteryTick =>
          \/ batt_val' = batt_val
          \/ batt_val' = Max(0, batt_val - 1)
          \/ /\ batt_val < 20
             /\ \E j \in 8..25 : batt_val' = Min(100, batt_val + j)]_vars

\* C20 as amended: with d in {0, 1} the decrement of the tick, q = max(0, p - d),
\* unless p - d < 20, where q may be p - d plus a recharge jump of 8 to 25
\* (within [0, 100]); a tick never raises the percent when p - d >= 20.
C20_StepPolicy ==
    [][BatteryTick =>
          /\ \E d \in {0, 1} :
                \/ batt_val' = Max(0, batt_val - d)
                \/ /\ batt_val - d < 20
                   /\ \E j \in 8..25 :
                         batt_val' = Clamp(batt_val - d + j, 0, 100)
          /\ batt_val >= 21 => batt_val' <= batt_val]_vars

\* C20 witness: a recharge from a percent that was 20 before its decrement
C20_Witness ==
    /\ recharged
    /\ batt_val = 27

\* a voltage to the one decimal the Home page prints
Decivolts(mv) == (mv + 50) \div 100

\* C21: percent and voltage never disagree on the display: in every state the
\* top bar and the Home page show the current percent, and the voltage
\* readouts of the top bar and of the Home page show 11.0 + (percent/100)*1.6
\* of that percent (each to the decimals it prints).
C21_DisplayConsistent ==
    /\ batt_label.percent = batt_val
    /\ batt_large_label = batt_val
    /\ batt_label.centivolts = Fmt2(Voltage(batt_val))
    /\ Decivolts(HomeVoltageLabel) = Decivolts(Voltage(batt_val))

\* C22: connectivity starts disconnected; every connectivity tick flips it
\* and nothing else changes it (so it is connected exactly after an odd number
\* of ticks); a tick to connected draws one signal strength in [-70, -40] and
\* the top bar and the Settings entry both show connected with that strength;
\* a tick to disconnected leaves both showing disconnected.
C22_Connectivity ==
    /\ ~conn_state
    /\ [][/\ ToggleConn => conn_state' = ~conn_state
          /\ conn_state' # conn_state => ToggleConn
          /\ (~conn_state /\ conn_state') =>
                /\ conn_label'.text = "connected"
                /\ wifi_entry'.text = "Connected"
                /\ conn_label'.rssi \in -70..-40
                /\ wifi_entry'.rssi = conn_label'.rssi
          /\ (conn_state /\ ~conn_state') =>
                /\ conn_label' = [text |-> "disconnected"]
                /\ wifi_entry' = [text |-> "Not connected"]]_vars

\* C22 witness: connected, both readouts showing the strength drawn, while a
\* dial dialog is open
C22_Witness ==
    /\ conn_state
    /\ conn_label = [text |-> "connected", rssi |-> -70]
    /\ wifi_entry = [text |-> "Connected", rssi |-> -70]
    /\ dlg.open

\* C23: every dialog session starts from a fresh snapshot: a dial dialog
\* opened for channel c is a new, unedited session on c whose dial and readout
\* show the value stored for c at that moment, whatever an earlier accepted
\* or cancelled session on c or on another channel had on its dial.
C23_FreshSnapshot ==
    [][\A c \in Channels :
          OpenDial(c) =>
              /\ dlg'.open /\ dlg'.motor = c
              /\ get_value(dlg') = motors[c]
              /\ dlg'.value_label = motors[c]
              /\ ~snap'.edited]_vars

\* C23 witness: after a preset and an accepted session that left 77 on ARM, a
\* dialog is open on WRIST and shows the stored 40
C23_Witness ==
    /\ dlg.open /\ dlg.motor = "WRIST"
    /\ ~snap.edited
    /\ motors = [ARM |-> 77, WRIST |-> 40, TENTACLE |-> 10]
    /\ get_value(dlg) = 40

\* C24: _set_motor(c, v) leaves the stored value, the gauge and the slider of
\* every other channel d # c unchanged: for every v (out-of-range ones
\* included) in every state reachable through operator input, and in every
\* step a slider or an accepted dialog takes.
C24_OtherChannelsUnchanged ==
    /\ [](\A c \in Channels, v \in ApiValues :
            LET r == set_motor(MotorState, c, v)
            IN  \A d \in Channels \ {c} :
                   <<r.motors[d], r.circ[d], r.slider[d]>>
                       = <<motors[d], circ[d], slider[d]>>)
    /\ [][/\ \A c \in Channels :
                (/\ slider'[c] # slider[c]
                 /\ \E v \in SliderValues : SliderMoved(c, v))
                => \A d \in Channels \ {c} :
                      <<motors'[d], circ'[d], slider'[d]>>
                          = <<motors[d], circ[d], slider[d]>>
          /\ (dlg.open /\ DialogAccept)
                => \A d \in Channels \ {dlg.motor} :
                      <<motors'[d], circ'[d], slider'[d]>>
                          = <<motors[d], circ[d], slider[d]>>]_vars

\* C24 witness: after a preset, the ARM slider was moved to 0; WRIST and
\* TENTACLE keep the preset's values in store, gauge and slider
C24_Witness ==
    /\ dlg = NoDialog
    /\ motors = [ARM |-> 0, WRIST |-> 40, TENTACLE |-> 10]
    /\ circ = motors
    /\ slider = motors

====
